---- MODULE Spec2Model ----
(***************************************************************************)
(* Model of bicams_brazil_ptbr.py: the BICAMS normative calculator.        *)
(*                                                                         *)
(* One run of main() is modelled as four steps, in the order of the        *)
(* script: the SDMT block, the CVLT block, the BVMT block and the export   *)
(* button.  Real numbers are fixed point: scaled scores, regression        *)
(* coefficients and percentiles in millionths (Unit), z-scores in          *)
(* ten-thousandths (ZUnit), divisions rounded down.                        *)
(***************************************************************************)
EXTENDS Integers, Sequences, FiniteSets, TLC

VARIABLES
    age,                   \* st.slider "Idade em anos"
    sex,                   \* "M" or "F", from the selectbox
    education,             \* st.slider "Escolaridade em anos"
    pc,                    \* the block of main() that runs next
    sdmt_not_applicable,   \* the three "Nao se aplica" checkboxes
    cvlt_not_applicable,
    bvmt_not_applicable,
    raw,                   \* sdmt_raw, cvlt_raw, bvmt_raw in turn: the raw
                           \* score the block that ran last read
    scaled,                \* sdmt_scaled, cvlt_scaled, bvmt_scaled in turn
    percentile,            \* the local every block assigns
    classification,        \* the local every block assigns
    z_scores,
    report_data,
    button,                \* what st.button returned
    warning,               \* st.warning was shown
    pdf,                   \* the document save_report_as_pdf wrote
    download               \* st.download_button was offered

vars == <<age, sex, education, pc, sdmt_not_applicable, cvlt_not_applicable,
          bvmt_not_applicable, raw, scaled, percentile, classification, z_scores,
          report_data, button, warning, pdf, download>>

(***************************************************************************)
(* Bounds of the model.                                                     *)
(***************************************************************************)
\* this many of the demographic profiles of Profiles are explored
MaxProfiles == 3
\* raw scores this far outside a widget's range are fed to the lookup
RawMargin == 3
\* whole percents this far below 0 and above 100 are fed to the classifier
PctMargin == 3

(***************************************************************************)
(* Fixed point.                                                            *)
(***************************************************************************)
Unit == 10^6
ZUnit == 10^4

\* a local of main() that no statement has assigned yet
Unbound == "unbound"

(***************************************************************************)
(* The static tables.                                                      *)
(***************************************************************************)
Measures == {"SDMT", "CVLT_totaldeacertos", "BVMT_Total"}

sdmt_name == "Symbol Digit Modalities Test (SDMT)"
cvlt_name == "California Verbal Learning Test - Second Edition (CVLT-II)"
bvmt_name == "Brief Visuospatial Memory Test - Revised (BVMT-R)"

\* regression coefficients and residual standard deviations, in millionths
regression_models ==
    [m \in Measures |->
       CASE m = "CVLT_totaldeacertos" ->
              [constant |-> 8512324, age |-> -147980, age2 |-> 1373,
               sex |-> 176426, education |-> 364315, residual_sd |-> 2527166]
         [] m = "BVMT_Total" ->
              [constant |-> 11584550, age |-> -147520, age2 |-> 896,
               sex |-> -190420, education |-> 228950, residual_sd |-> 2626665]
         [] m = "SDMT" ->
              [constant |-> 9248778, age |-> -10940, age2 |-> -860,
               sex |-> -471400, education |-> 263055, residual_sd |-> 2483230]]

\* -np.inf and np.inf: below and above every raw score the model feeds
NegInf == -1000000000
PosInf == 1000000000

\* the k-th element is the interval (low, high) of scaled score k
CVLT_intervals ==
    << <<NegInf, 19>>, <<20, 28>>, <<29, 31>>, <<32, 35>>, <<36, 39>>, <<40, 41>>,
       <<42, 44>>, <<45, 48>>, <<49, 52>>, <<53, 56>>, <<57, 60>>, <<61, 64>>,
       <<65, 66>>, <<67, 69>>, <<70, 71>>, <<72, 72>>, <<73, 74>>, <<75, 75>>,
       <<76, PosInf>> >>

\* BVMT_intervals with the low bound of scaled score 5 mistyped: 12 lies in
\* two intervals
BVMT_intervals_overlap ==
    << <<NegInf, 2>>, <<3, 5>>, <<6, 8>>, <<9, 12>>, <<12, 17>>, <<18, 20>>,
       <<21, 23>>, <<24, 26>>, <<27, 28>>, <<29, 30>>, <<31, 32>>, <<33, 34>>,
       <<35, 35>>, <<36, 36>> >>

BVMT_intervals ==
    << <<NegInf, 2>>, <<3, 5>>, <<6, 8>>, <<9, 12>>, <<13, 17>>, <<18, 20>>,
       <<21, 23>>, <<24, 26>>, <<27, 28>>, <<29, 30>>, <<31, 32>>, <<33, 34>>,
       <<35, 35>>, <<36, 36>> >>

\* SDMT_intervals with the low bound of scaled score 11 mistyped: 63 lies in
\* no interval
SDMT_intervals_gap ==
    << <<NegInf, 9>>, <<10, 17>>, <<18, 23>>, <<24, 29>>, <<30, 36>>, <<37, 43>>,
       <<44, 49>>, <<50, 53>>, <<54, 58>>, <<59, 62>>, <<64, 68>>, <<69, 74>>,
       <<75, 79>>, <<80, 93>>, <<94, 107>>, <<108, PosInf>> >>

SDMT_intervals ==
    << <<NegInf, 9>>, <<10, 17>>, <<18, 23>>, <<24, 29>>, <<30, 36>>, <<37, 43>>,
       <<44, 49>>, <<50, 53>>, <<54, 58>>, <<59, 62>>, <<63, 68>>, <<69, 74>>,
       <<75, 79>>, <<80, 93>>, <<94, 107>>, <<108, PosInf>> >>

conversion_table ==
    [m \in Measures |->
       CASE m = "CVLT_totaldeacertos" -> CVLT_intervals
         [] m = "BVMT_Total" -> BVMT_intervals
         [] m = "SDMT" -> SDMT_intervals]

(***************************************************************************)
(* The scoring functions.                                                  *)
(***************************************************************************)
\* np.nan: no scaled score
NaN == -1

\* a test that never answers yes, as "x == np.nan" would
IsNaN_by_equality(x) == FALSE

\* np.isnan
IsNaN(x) == x = NaN

\* the dict is scanned in insertion order, scaled score 1 first: the first
\* interval that contains the raw score decides
convert_to_scaled_score(raw_score, measure) ==
    LET table == conversion_table[measure]
        hits == {k \in DOMAIN table :
                    table[k][1] <= raw_score /\ raw_score <= table[k][2]}
    IN  IF hits = {} THEN NaN
        ELSE CHOOSE k \in hits : \A j \in hits : k <= j

\* calculate_predicted_scaled_score with the two sex codes exchanged
calculate_predicted_scaled_score_sex_swapped(a, s, e, measure) ==
    LET model == regression_models[measure]
        age2 == a * a
        sex_for_model == IF s = "M" THEN 2 ELSE 1
    IN  model.constant + model.age * a + model.age2 * age2
          + model.sex * sex_for_model + model.education * e

\* the predicted scaled score, in millionths
calculate_predicted_scaled_score(a, s, e, measure) ==
    LET model == regression_models[measure]
        age2 == a * a
        sex_for_model == IF s = "M" THEN 1 ELSE 2
    IN  model.constant + model.age * a + model.age2 * age2
          + model.sex * sex_for_model + model.education * e

\* q and r are the quotient and remainder so far; k more decimal digits of
\* the quotient are produced
RECURSIVE DivDigits(_, _, _, _)
DivDigits(q, r, d, k) ==
    IF k = 0 THEN q
    ELSE DivDigits(10 * q + ((10 * r) \div d), (10 * r) % d, d, k - 1)

\* the difference taken the other way round: (pss - scaled) / residual_sd
z_score_reversed(scaled_score, pss, measure) ==
    LET n == pss - scaled_score * Unit
        d == regression_models[measure].residual_sd
    IN  DivDigits(n \div d, n % d, d, 4)

\* (scaled - pss) / residual_sd, in ten-thousandths, rounded down
z_score(scaled_score, pss, measure) ==
    LET n == scaled_score * Unit - pss
        d == regression_models[measure].residual_sd
    IN  DivDigits(n \div d, n % d, d, 4)

\* the standard normal distribution function at z = 0.0, 0.1, ..., 5.0, in
\* millionths
cdf_table ==
    << 500000, 539828, 579260, 617911, 655422, 691462,
       725747, 758036, 788145, 815940, 841345, 864334,
       884930, 903200, 919243, 933193, 945201, 955435,
       964070, 971283, 977250, 982136, 986097, 989276,
       991802, 993790, 995339, 996533, 997445, 998134,
       998650, 999032, 999313, 999517, 999663, 999767,
       999841, 999892, 999928, 999952, 999968, 999979,
       999987, 999991, 999995, 999997, 999998, 999999,
       999999, 1000000, 1000000 >>

\* scipy's norm.cdf, by linear interpolation in cdf_table: z in
\* ten-thousandths, the result in millionths
norm_cdf(z) ==
    LET upper(y) ==
            LET i == y \div 1000
                f == y % 1000
            IN  IF i + 2 > Len(cdf_table) THEN Unit
                ELSE cdf_table[i + 1]
                       + ((cdf_table[i + 2] - cdf_table[i + 1]) * f) \div 1000
    IN  IF z >= 0 THEN upper(z) ELSE Unit - upper(-z)

\* interpret_percentile with "percentile > 98" as its first test: 98 itself
\* is caught by no test and falls to the last branch
interpret_percentile_gt98(p) ==
    IF p > 98 * Unit
      THEN <<">130", ">98", "Excepcionalmente Alto", "Exceptionally High", "#00008B">>
    ELSE IF 90 * Unit <= p /\ p < 98 * Unit
      THEN <<"120-129", "91-97", "Acima da Media", "Above Average", "#0000FF">>
    ELSE IF 75 * Unit <= p /\ p < 90 * Unit
      THEN <<"110-119", "75-90", "Medio-Alto", "High Average", "#00FFFF">>
    ELSE IF 25 * Unit <= p /\ p < 75 * Unit
      THEN <<"90-109", "25-74", "Medio", "Average", "#00FF00">>
    ELSE IF 9 * Unit <= p /\ p < 25 * Unit
      THEN <<"80-89", "9-24", "Medio-Baixo", "Low Average", "#FFD700">>
    ELSE IF 2 * Unit <= p /\ p < 9 * Unit
      THEN <<"70-79", "2-8", "Abaixo da Media", "Below Average", "#FF4500">>
    ELSE <<"<70", "<2", "Excepcionalmente Baixo", "Exceptionally Low", "#FF0000">>

\* the percentile is in millionths of a percent; the labels are written
\* without their accents
interpret_percentile(p) ==
    IF p >= 98 * Unit
      THEN <<">130", ">98", "Excepcionalmente Alto", "Exceptionally High", "#00008B">>
    ELSE IF 90 * Unit <= p /\ p < 98 * Unit
      THEN <<"120-129", "91-97", "Acima da Media", "Above Average", "#0000FF">>
    ELSE IF 75 * Unit <= p /\ p < 90 * Unit
      THEN <<"110-119", "75-90", "Medio-Alto", "High Average", "#00FFFF">>
    ELSE IF 25 * Unit <= p /\ p < 75 * Unit
      THEN <<"90-109", "25-74", "Medio", "Average", "#00FF00">>
    ELSE IF 9 * Unit <= p /\ p < 25 * Unit
      THEN <<"80-89", "9-24", "Medio-Baixo", "Low Average", "#FFD700">>
    ELSE IF 2 * Unit <= p /\ p < 9 * Unit
      THEN <<"70-79", "2-8", "Abaixo da Media", "Below Average", "#FF4500">>
    ELSE <<"<70", "<2", "Excepcionalmente Baixo", "Exceptionally Low", "#FF0000">>

(***************************************************************************)
(* The widgets of main().                                                  *)
(***************************************************************************)
AgeMin == 18
AgeMax == 100
AgeDefault == 40
EduMin == 1
EduMax == 20
EduDefault == 12
RawMin == 0
SdmtMax == 120
CvltMax == 80
BvmtMax == 36

\* what the selectbox "Sexo" makes of its two choices
SexOf(sex_display) == IF sex_display = "Masculino" THEN "M" ELSE "F"

\* settings of the three demographic widgets: the defaults with either sex,
\* then the corners of the two sliders
Profiles ==
    << [age |-> AgeDefault, sex_display |-> "Masculino", education |-> EduDefault],
       [age |-> AgeDefault, sex_display |-> "Feminino", education |-> EduDefault],
       [age |-> AgeMax, sex_display |-> "Feminino", education |-> EduMin],
       [age |-> AgeMin, sex_display |-> "Masculino", education |-> EduMax],
       [age |-> AgeMin, sex_display |-> "Feminino", education |-> EduMin],
       [age |-> AgeMax, sex_display |-> "Masculino", education |-> EduMax] >>

Demographics == {Profiles[i] : i \in {j \in DOMAIN Profiles : j <= MaxProfiles}}

\* the BVMT widgets with a limit above the top of the BVMT table
RawMax_bvmt_40(measure) ==
    CASE measure = "SDMT" -> SdmtMax
      [] measure = "CVLT_totaldeacertos" -> CvltMax
      [] measure = "BVMT_Total" -> BvmtMax + 4

\* max_value of the slider and of the number_input of a measure
RawMax(measure) ==
    CASE measure = "SDMT" -> SdmtMax
      [] measure = "CVLT_totaldeacertos" -> CvltMax
      [] measure = "BVMT_Total" -> BvmtMax

\* the values the slider or number_input of a measure can return
WidgetRange(measure) == RawMin..RawMax(measure)

\* the same range widened by RawMargin at both ends
ProbeRange(measure) == (RawMin - RawMargin)..(RawMax(measure) + RawMargin)

\* percentiles right below, at and right above every whole percent from
\* PctMargin below 0 to PctMargin above 100
PercentileProbes ==
    {p * Unit + d : p \in (0 - PctMargin)..(100 + PctMargin), d \in {-1, 0, 1}}

(***************************************************************************)
(* main().                                                                 *)
(***************************************************************************)
Init ==
    /\ \E d \in Demographics :
          /\ age = d.age
          /\ sex = SexOf(d.sex_display)
          /\ education = d.education
    /\ pc = "sdmt"
    /\ sdmt_not_applicable = Unbound
    /\ cvlt_not_applicable = Unbound
    /\ bvmt_not_applicable = Unbound
    /\ raw = Unbound
    /\ scaled = Unbound
    /\ percentile = Unbound
    /\ classification = Unbound
    /\ z_scores = <<>>
    /\ report_data = <<>>
    /\ button = Unbound
    /\ warning = FALSE
    /\ pdf = <<>>
    /\ download = FALSE

\* the body of one "Process ..." block: not_applicable is the checkbox, r the
\* raw score its widget returns; no widget is shown when the box is ticked.  The plot is
\* left out of the report entry.
ProcessMeasure(measure, measure_name, not_applicable, r) ==
    IF not_applicable
    THEN /\ raw' = Unbound
         /\ scaled' = Unbound
         /\ UNCHANGED <<percentile, classification, z_scores, report_data>>
    ELSE /\ raw' = r
         /\ scaled' = convert_to_scaled_score(r, measure)
         /\ IF IsNaN(scaled')
            THEN UNCHANGED <<percentile, classification, z_scores, report_data>>
            ELSE LET pss == calculate_predicted_scaled_score(age, sex, education, measure)
                     z == z_score(scaled', pss, measure)
                     pct == norm_cdf(z) * 100
                     label == interpret_percentile(pct)[3]
                 IN  /\ percentile' = pct
                     /\ classification' = label
                     /\ z_scores' = Append(z_scores, z)
                     /\ report_data' = Append(report_data,
                            [measure |-> measure_name, z_score |-> z,
                             percentile |-> pct, score_label |-> label])

ProcessSDMT(raws) ==
    /\ pc = "sdmt"
    /\ \E na \in BOOLEAN :
       \E r \in (IF na THEN {Unbound} ELSE raws) :
          /\ sdmt_not_applicable' = na
          /\ ProcessMeasure("SDMT", sdmt_name, na, r)
    /\ pc' = "cvlt"
    /\ UNCHANGED <<age, sex, education, cvlt_not_applicable, bvmt_not_applicable,
                   button, warning, pdf, download>>

\* the CVLT block testing the checkbox of the SDMT block
ProcessCVLT_sdmt_checkbox(raws) ==
    /\ pc = "cvlt"
    /\ \E na \in BOOLEAN :
       \E r \in (IF sdmt_not_applicable THEN {Unbound} ELSE raws) :
          /\ cvlt_not_applicable' = na
          /\ ProcessMeasure("CVLT_totaldeacertos", cvlt_name, sdmt_not_applicable, r)
    /\ pc' = "bvmt"
    /\ UNCHANGED <<age, sex, education, sdmt_not_applicable, bvmt_not_applicable,
                   button, warning, pdf, download>>

ProcessCVLT(raws) ==
    /\ pc = "cvlt"
    /\ \E na \in BOOLEAN :
       \E r \in (IF na THEN {Unbound} ELSE raws) :
          /\ cvlt_not_applicable' = na
          /\ ProcessMeasure("CVLT_totaldeacertos", cvlt_name, na, r)
    /\ pc' = "bvmt"
    /\ UNCHANGED <<age, sex, education, sdmt_not_applicable, bvmt_not_applicable,
                   button, warning, pdf, download>>

\* the BVMT block filing its entry under the name of the CVLT
ProcessBVMT_cvlt_name(raws) ==
    /\ pc = "bvmt"
    /\ \E na \in BOOLEAN :
       \E r \in (IF na THEN {Unbound} ELSE raws) :
          /\ bvmt_not_applicable' = na
          /\ ProcessMeasure("BVMT_Total", cvlt_name, na, r)
    /\ pc' = "export"
    /\ UNCHANGED <<age, sex, education, sdmt_not_applicable, cvlt_not_applicable,
                   button, warning, pdf, download>>

ProcessBVMT(raws) ==
    /\ pc = "bvmt"
    /\ \E na \in BOOLEAN :
       \E r \in (IF na THEN {Unbound} ELSE raws) :
          /\ bvmt_not_applicable' = na
          /\ ProcessMeasure("BVMT_Total", bvmt_name, na, r)
    /\ pc' = "export"
    /\ UNCHANGED <<age, sex, education, sdmt_not_applicable, cvlt_not_applicable,
                   button, warning, pdf, download>>

\* the document: the header, one section per entry of the report in the
\* order of the list, the citation
save_report_as_pdf(data) ==
    <<[kind |-> "header", text |-> "BICAMS"]>>
      \o [i \in 1..Len(data) |-> [kind |-> "section", text |-> data[i].measure]]
      \o <<[kind |-> "citation", text |-> "Spedo et al. 2022"]>>

\* a test that an empty list passes too, as "if report_data is not None"
HasResults_not_none(data) == TRUE

\* "if report_data:"
HasResults(data) == data # <<>>

\* the button "Salvar Relatorio como PDF" and what follows it
Export ==
    /\ pc = "export"
    /\ button' \in BOOLEAN
    /\ IF button'
       THEN IF HasResults(report_data)
            THEN /\ pdf' = save_report_as_pdf(report_data)
                 /\ download' = TRUE
                 /\ UNCHANGED warning
            ELSE /\ warning' = TRUE
                 /\ UNCHANGED <<pdf, download>>
       ELSE UNCHANGED <<warning, pdf, download>>
    /\ pc' = "done"
    /\ UNCHANGED <<age, sex, education, sdmt_not_applicable, cvlt_not_applicable,
                   bvmt_not_applicable, raw, scaled, percentile, classification,
                   z_scores, report_data>>

SDMT == ProcessSDMT(WidgetRange("SDMT"))
CVLT == ProcessCVLT(WidgetRange("CVLT_totaldeacertos"))
BVMT == ProcessBVMT(WidgetRange("BVMT_Total"))

Next == SDMT \/ CVLT \/ BVMT \/ Export

Spec == Init /\ [][Next]_vars

(***************************************************************************)
(* The blocks of main() fed raw scores from beyond the widgets' limits,    *)
(* which makes convert_to_scaled_score a function of any integer near the  *)
(* calibrated range and brings the np.isnan guard of each block into play. *)
(***************************************************************************)
SDMTProbe == ProcessSDMT(ProbeRange("SDMT"))
CVLTProbe == ProcessCVLT(ProbeRange("CVLT_totaldeacertos"))
BVMTProbe == ProcessBVMT(ProbeRange("BVMT_Total"))

NextProbe == SDMTProbe \/ CVLTProbe \/ BVMTProbe \/ Export

SpecProbe == Init /\ [][NextProbe]_vars

(***************************************************************************)
(* interpret_percentile alone, applied to percentiles inside and outside   *)
(* 0..100.                                                                 *)
(***************************************************************************)
InitBands ==
    /\ age = AgeDefault
    /\ sex = "M"
    /\ education = EduDefault
    /\ pc = "interpret"
    /\ sdmt_not_applicable = Unbound
    /\ cvlt_not_applicable = Unbound
    /\ bvmt_not_applicable = Unbound
    /\ raw = Unbound
    /\ scaled = Unbound
    /\ percentile \in PercentileProbes
    /\ classification = Unbound
    /\ z_scores = <<>>
    /\ report_data = <<>>
    /\ button = Unbound
    /\ warning = FALSE
    /\ pdf = <<>>
    /\ download = FALSE

Interpret ==
    /\ pc = "interpret"
    /\ classification' = interpret_percentile(percentile)[3]
    /\ pc' = "done"
    /\ UNCHANGED <<age, sex, education, sdmt_not_applicable, cvlt_not_applicable,
                   bvmt_not_applicable, raw, scaled, percentile, z_scores,
                   report_data, button, warning, pdf, download>>

NextBands == Interpret

SpecBands == InitBands /\ [][NextBands]_vars

(***************************************************************************)
(* Vocabulary of the properties.                                           *)
(***************************************************************************)
\* the block of this measure has run
Processed(m) ==
    CASE m = "SDMT" -> pc \in {"cvlt", "bvmt", "export", "done"}
      [] m = "CVLT_totaldeacertos" -> pc \in {"bvmt", "export", "done"}
      [] m = "BVMT_Total" -> pc \in {"export", "done"}

NotApplicable(m) ==
    CASE m = "SDMT" -> sdmt_not_applicable
      [] m = "CVLT_totaldeacertos" -> cvlt_not_applicable
      [] m = "BVMT_Total" -> bvmt_not_applicable

NameOf(m) ==
    CASE m = "SDMT" -> sdmt_name
      [] m = "CVLT_totaldeacertos" -> cvlt_name
      [] m = "BVMT_Total" -> bvmt_name

\* the measure whose block ran last; raw and scaled are its raw and scaled
\* score
Last ==
    CASE pc = "cvlt" -> "SDMT"
      [] pc = "bvmt" -> "CVLT_totaldeacertos"
      [] pc \in {"export", "done"} -> "BVMT_Total"

\* a block has run and its measure was administered
Scored == pc \in {"cvlt", "bvmt", "export", "done"} /\ ~NotApplicable(Last)

\* the scaled scores whose interval contains raw score r
Containing(r, m) ==
    {k \in DOMAIN conversion_table[m] :
        conversion_table[m][k][1] <= r /\ r <= conversion_table[m][k][2]}

\* the positions of the entries of this measure in a report
EntriesIn(data, m) == {i \in DOMAIN data : data[i].measure = NameOf(m)}

Entries(m) == EntriesIn(report_data, m)

(***************************************************************************)
(* The scaled-score lookup.                                                *)
(***************************************************************************)
\* C1: the intervals of a conversion table do not overlap and the interval
\* of scaled score k+1 starts right after that of k ends, so a raw score lies
\* in at most one interval, and the lookup a block made returned the scaled
\* score of that interval, or NaN when there is none.
C1_Partition ==
    Scored =>
       LET t == conversion_table[Last]
       IN  /\ \A k \in DOMAIN t : t[k][1] <= t[k][2]
           /\ \A k \in 1..(Len(t) - 1) : t[k + 1][1] = t[k][2] + 1
           /\ Cardinality(Containing(raw, Last)) <= 1
           /\ IF Containing(raw, Last) = {} THEN IsNaN(scaled)
              ELSE Containing(raw, Last) = {scaled}

\* the SDMT block looked up a raw score of the unbounded top interval
C1_Witness == pc = "cvlt" /\ ~sdmt_not_applicable /\ raw = 108 /\ scaled = 16

\* C7: when the raw score a block looked up is the high bound of an interval
\* that is not the last of its table, the next integer is the low bound of
\* the next interval and the lookup maps the two to scaled scores that
\* differ by exactly 1.
C7_BoundaryStep ==
    Scored =>
       LET t == conversion_table[Last]
       IN  \A k \in 1..(Len(t) - 1) :
              raw = t[k][2] =>
                 /\ scaled = k
                 /\ t[k + 1][1] = raw + 1
                 /\ convert_to_scaled_score(raw + 1, Last) = scaled + 1

\* the CVLT block looked up 72, the one raw score of scaled score 16
C7_Witness ==
    pc = "bvmt" /\ ~cvlt_not_applicable /\ raw = 72 /\ scaled = 16

\* C5: a block whose raw score lies in no interval of its table gets NaN
\* from the lookup, computes no percentile or classification, appends
\* nothing to z_scores or report_data, and hands over to the next block: the
\* entries of the other measures stay as they are and none is of this
\* measure.
C5_OutOfRangeDropped ==
    [][(pc \in {"sdmt", "cvlt", "bvmt"} /\ pc' # pc
          /\ ~NotApplicable(Last)' /\ Containing(raw', Last') = {})
       => /\ IsNaN(scaled')
          /\ z_scores' = z_scores
          /\ report_data' = report_data
          /\ percentile' = percentile
          /\ classification' = classification
          /\ EntriesIn(report_data', Last') = {}]_vars

\* SDMT and CVLT were scored, BVMT was given a raw score above its table
C5_Witness ==
    /\ pc = "export" /\ ~bvmt_not_applicable /\ raw = BvmtMax + 1
    /\ IsNaN(scaled)
    /\ Len(report_data) = 2 /\ Len(z_scores) = 2

\* C8: a raw score within the limits of its widget always has a scaled
\* score, and its block leaves exactly one entry of its measure in
\* report_data; the lookup yields NaN only for raw scores outside those
\* limits.
C8_WidgetRangeDefined ==
    Scored =>
       /\ raw \in WidgetRange(Last) =>
             /\ scaled \in DOMAIN conversion_table[Last]
             /\ Cardinality(Entries(Last)) = 1
             /\ report_data[Len(report_data)].measure = NameOf(Last)
       /\ IsNaN(scaled) => raw \notin WidgetRange(Last)

\* the BVMT block was given the highest score its widget allows
C8_Witness ==
    /\ pc = "export" /\ ~bvmt_not_applicable /\ raw = BvmtMax
    /\ scaled = 14 /\ Entries("BVMT_Total") # {}

(***************************************************************************)
(* The classification bands.                                               *)
(***************************************************************************)
\* the seven classifications, lowest band first
BandOrder ==
    << "Excepcionalmente Baixo", "Abaixo da Media", "Medio-Baixo", "Medio",
       "Medio-Alto", "Acima da Media", "Excepcionalmente Alto" >>

BandRank(label) == CHOOSE i \in DOMAIN BandOrder : BandOrder[i] = label

\* the boundaries between the bands as the specification gives them, in
\* whole percents
BandBoundaries == {2, 9, 25, 75, 90, 98}

\* C2: every percentile, also one below 0 or above 100, is given exactly one
\* of seven distinct bands: the band numbered by how many of the boundaries
\* 2, 9, 25, 75, 90 and 98 the percentile has reached, a percentile equal to
\* a boundary counting as having reached it.
C2_BandsPartition ==
    /\ Cardinality({BandOrder[i] : i \in DOMAIN BandOrder}) = 7
    /\ pc = "done" =>
          /\ classification \in {BandOrder[i] : i \in DOMAIN BandOrder}
          /\ BandRank(classification)
               = 1 + Cardinality({b \in BandBoundaries : percentile >= b * Unit})

\* the classifier was given exactly 98 and answered with the top band
C2_Witness ==
    pc = "done" /\ percentile = 98 * Unit
      /\ classification = "Excepcionalmente Alto"

(***************************************************************************)
(* The report.                                                             *)
(***************************************************************************)
\* the titles of the sections of a document, in order
SectionTitles(doc) ==
    LET idx == {i \in DOMAIN doc : doc[i].kind = "section"}
        F[i \in 0..Len(doc)] ==
            IF i = 0 THEN <<>>
            ELSE IF i \in idx THEN Append(F[i - 1], doc[i].text) ELSE F[i - 1]
    IN  F[Len(doc)]

\* the measures of the entries of a report, in order
EntryNames(data) == [i \in DOMAIN data |-> data[i].measure]

\* the position of a measure in the order of the script
NameRank(name) ==
    CASE name = sdmt_name -> 1
      [] name = cvlt_name -> 2
      [] name = bvmt_name -> 3

\* C3: a measure whose "Nao se aplica" box is ticked has no entry in
\* report_data, z_scores holds a score for no more than the measures that
\* were administered, and the exported document has no section of it,
\* whatever the other measures and the demographics are.
C3_NotAdministeredAbsent ==
    /\ \A m \in Measures :
          (Processed(m) /\ NotApplicable(m)) =>
             /\ Entries(m) = {}
             /\ \A i \in DOMAIN pdf : pdf[i].text # NameOf(m)
    /\ Len(z_scores) = Len(report_data)
    /\ Len(z_scores) <= Cardinality({m \in Measures : Processed(m) /\ ~NotApplicable(m)})

\* CVLT was left out, the other two were scored and the report exported
C3_Witness ==
    /\ pc = "done" /\ cvlt_not_applicable
    /\ ~sdmt_not_applicable /\ ~bvmt_not_applicable
    /\ button /\ Len(report_data) = 2 /\ Len(pdf) = 4

\* C4: pressing the export button with no result (report_data empty, which
\* is when all three measures were left out) shows the warning, writes no
\* document and offers no download; with a result the document is written
\* and offered and no warning is shown.
C4_ExportOrWarn ==
    (pc = "done" /\ button) =>
       /\ (report_data = <<>>)
            = (sdmt_not_applicable /\ cvlt_not_applicable /\ bvmt_not_applicable)
       /\ IF report_data = <<>>
          THEN warning /\ pdf = <<>> /\ ~download
          ELSE ~warning /\ pdf # <<>> /\ download

\* the button was pressed after all three measures were left out
C4_Witness ==
    /\ pc = "done" /\ button
    /\ sdmt_not_applicable /\ cvlt_not_applicable /\ bvmt_not_applicable
    /\ warning /\ pdf = <<>>

\* C9: report_data and z_scores have the same length, at most 3; the i-th
\* z-score is the one stored in the i-th entry; the entries are in the order
\* SDMT, CVLT, BVMT with no measure twice; and the sections of the exported
\* document are the entries in that order.
C9_ReportOrder ==
    /\ Len(report_data) = Len(z_scores)
    /\ Len(report_data) <= 3
    /\ \A i \in DOMAIN report_data : z_scores[i] = report_data[i].z_score
    /\ \A i, j \in DOMAIN report_data :
          i < j => NameRank(report_data[i].measure) < NameRank(report_data[j].measure)
    /\ pdf # <<>> => SectionTitles(pdf) = EntryNames(report_data)

\* all three measures were scored and exported
C9_Witness ==
    /\ pc = "done" /\ button /\ Len(report_data) = 3
    /\ SectionTitles(pdf) = <<sdmt_name, cvlt_name, bvmt_name>>

(***************************************************************************)
(* The scoring pipeline.                                                   *)
(***************************************************************************)
\* the z-score of scaled score s of measure m for the subject of the run,
\* and the classification of a z-score, as a block computes them
ZOf(s, m) ==
    z_score(s, calculate_predicted_scaled_score(age, sex, education, m), m)

LabelOf(z) == interpret_percentile(norm_cdf(z) * 100)[3]

\* the entry the block that ran last appended
LastEntry == report_data[Len(report_data)]

\* C6: for a man of 40 with 12 years of education and an SDMT raw score of
\* 60 the scaled score is 10, the predicted scaled score is 10.12 to two
\* decimals, the z-score is within 0.001 of -0.048, the percentile is
\* within 0.05 of 48.1 and the classification is the band from 25 to under
\* 75, "Medio" ("Average").
C6_Scenario ==
    (pc = "cvlt" /\ ~sdmt_not_applicable /\ raw = 60
       /\ age = 40 /\ sex = "M" /\ education = 12) =>
       LET pss == calculate_predicted_scaled_score(age, sex, education, "SDMT")
       IN  /\ scaled = 10
           /\ 10115000 <= pss /\ pss <= 10125000
           /\ Len(report_data) = 1
           /\ LastEntry.measure = sdmt_name
           /\ -490 <= LastEntry.z_score /\ LastEntry.z_score <= -470
           /\ 48050000 <= LastEntry.percentile /\ LastEntry.percentile <= 48150000
           /\ LastEntry.score_label = "Medio"
           /\ interpret_percentile(LastEntry.percentile)[4] = "Average"
           /\ interpret_percentile(LastEntry.percentile)[2] = "25-74"

\* the SDMT block has scored that subject
C6_Witness ==
    /\ pc = "cvlt" /\ ~sdmt_not_applicable /\ raw = 60
    /\ age = 40 /\ sex = "M" /\ education = 12
    /\ scaled = 10 /\ classification = "Medio"

\* C10: with the measure and the subject fixed, a raw score that is not
\* above the one the block scored, and that has a scaled score, gets a
\* scaled score, a z-score and a band that are not above those the block
\* computed.
C10_Monotone ==
    (Scored /\ ~IsNaN(scaled)) =>
       LET lower == {convert_to_scaled_score(r1, Last) :
                        r1 \in {r \in ProbeRange(Last) : r <= raw}}
       IN  \A s1 \in lower :
              ~IsNaN(s1) =>
                 /\ s1 <= scaled
                 /\ ZOf(s1, Last) <= LastEntry.z_score
                 /\ BandRank(LabelOf(ZOf(s1, Last))) <= BandRank(LastEntry.score_label)

\* the SDMT block scored 108, which lands in a higher band than 60 does
C10_Witness ==
    /\ pc = "cvlt" /\ ~sdmt_not_applicable /\ raw = 108 /\ scaled = 16
    /\ convert_to_scaled_score(60, "SDMT") < scaled
    /\ ZOf(convert_to_scaled_score(60, "SDMT"), "SDMT") < LastEntry.z_score
    /\ BandRank(LabelOf(ZOf(convert_to_scaled_score(60, "SDMT"), "SDMT")))
         < BandRank(classification)

====
